---- MODULE Spec2Model ----
(***************************************************************************)
(* Leakage-safe feature engine, artifact training/retraining and the       *)
(* prediction adapter of the Soccer-Calendar backend.                       *)
(*                                                                         *)
(* Floats are exact fractions <<num, den>> (den > 0, lowest terms);         *)
(* <<0, 0>> is NaN.  Dates are whole days.  Python None in a nullable       *)
(* integer column is the value None.                                        *)
(***************************************************************************)
EXTENDS Integers, Sequences, FiniteSets, TLC

VARIABLES
    matches,      \* table matches: set of Match rows
    snapshots,    \* table standings_snapshots: set of StandingsSnapshot rows
    features,     \* table features_match: match_id -> feature_json
    predictions,  \* table predictions: match_id -> Prediction row
    h2hCache,     \* table head_to_head_cache: <<home, away, season>> -> payload
    modelFile,    \* artifacts/model.pkl   (Absent or what a run dumped)
    scalerFile,   \* artifacts/scaler.pkl
    metaFile,     \* artifacts/metadata.json
    model,        \* ml_api globals: model, scaler, metadata
    scaler,
    metadata,
    job,          \* the training / retraining run in progress (NoJob if none)
    saved,        \* version ids written by the runs that saved an artifact, in order
    runs,         \* number of runs started so far
    now,          \* wall clock: [day, minute]
    last,         \* outcome of the most recent request of the serving surface
    calls         \* the get_features_for_match calls in progress, one per caller

vars == <<matches, snapshots, features, predictions, h2hCache, modelFile, scalerFile,
          metaFile, model, scaler, metadata, job, saved, runs, now, last, calls>>

storeVars == <<matches, snapshots>>
tableVars == <<features, predictions, h2hCache>>
fileVars == <<modelFile, scalerFile, metaFile>>
globalVars == <<model, scaler, metadata>>
trainVars == <<job, saved, runs, now>>

----------------------------------------------------------------------------
(* Bounds of the model *)

NumTeams == 3
MaxDate == 3
MaxSeason == 2
MaxMatchday == 2
MaxMatches == 2
MaxSnapshots == 2
MaxRuns == 2
MaxDay == 2
MaxMinute == 2
MaxBatch == 2
NumCallers == 2
YearLength == 2
MaxH2HInserts == 1
MaxDatasetInserts == 1

(* Program constants *)

None == -1
FinalMatchday == 38
SeasonGames == 38
RollingWindow == 5
MinPeriods == 1
ExtendedH2HLimit == 10
H2HLimit == 5
RecentH2H == 3
DefaultPosition == 10
DefaultPrevPoints == 50
DefaultPrevPlayed == 38
DefaultRestDays == 7

Teams == 1..NumTeams
Dates == 1..MaxDate
Seasons == 1..MaxSeason
Matchdays == (1..MaxMatchday) \cup {FinalMatchday}

----------------------------------------------------------------------------
(* Exact arithmetic standing in for Python floats *)

Abs(n) == IF n < 0 THEN -n ELSE n

Max(a, b) == IF a >= b THEN a ELSE b

Min(a, b) == IF a <= b THEN a ELSE b

RECURSIVE GCD(_, _)
GCD(a, b) == IF b = 0 THEN a ELSE GCD(b, a % b)

NaN == <<0, 0>>

Frac(n, d) ==
    IF d = 0 THEN NaN
    ELSE LET g == GCD(Abs(n), Abs(d))
             s == IF d < 0 THEN -1 ELSE 1
         IN  <<(s * n) \div g, (s * d) \div g>>

F(n) == <<n, 1>>

isna(v) == v = NaN

FSub(a, b) == Frac(a[1] * b[2] - b[1] * a[2], a[2] * b[2])

FDiv(a, b) == Frac(a[1] * b[2], a[2] * b[1])

\* {**a, **b}: the later map wins on a shared key
Merge(a, b) == b @@ a

RECURSIVE SumSeq(_, _, _)
SumSeq(s, lo, hi) == IF lo > hi THEN 0 ELSE s[lo] + SumSeq(s, lo + 1, hi)

CountSeq(s, Test(_)) == Cardinality({i \in 1..Len(s) : Test(s[i])})

\* ORDER BY utc_date; rows of equal date come in primary-key order
Before(x, y) == x.utc_date < y.utc_date \/ (x.utc_date = y.utc_date /\ x.id < y.id)

RECURSIVE OrderByDate(_)
OrderByDate(S) ==
    IF S = {} THEN <<>>
    ELSE LET m == CHOOSE x \in S : \A y \in S \ {x} : Before(x, y)
         IN  <<m>> \o OrderByDate(S \ {m})

Reverse(s) == [i \in 1..Len(s) |-> s[Len(s) + 1 - i]]

Limit(s, n) == SubSeq(s, 1, Min(Len(s), n))

----------------------------------------------------------------------------
(* Rolling form: backend/ml/features/rolling.py *)

HasScores(m) == m.home_score # None /\ m.away_score # None

TeamRow(m, team_id) ==
    LET is_home == m.home_team_id = team_id
        team_score == IF is_home THEN m.home_score ELSE m.away_score
        opponent_score == IF is_home THEN m.away_score ELSE m.home_score
    IN  [kickoff |-> m.utc_date,
         goals_for |-> team_score,
         goals_against |-> opponent_score,
         points |-> IF team_score > opponent_score THEN 3
                    ELSE IF team_score = opponent_score THEN 1 ELSE 0]

\* the history filter with the cut-off date let in
HistoryFilterLeaky(m, team_id, season, before_date) ==
    /\ m.season = season
    /\ m.utc_date <= before_date
    /\ (m.home_team_id = team_id \/ m.away_team_id = team_id)

HistoryFilter(m, team_id, season, before_date) ==
    /\ m.season = season
    /\ m.utc_date < before_date
    /\ (m.home_team_id = team_id \/ m.away_team_id = team_id)

get_team_match_history(db, team_id, season, before_date) ==
    LET sel == {m \in db : HistoryFilter(m, team_id, season, before_date)}
        scored == SelectSeq(OrderByDate(sel), HasScores)
    IN  [i \in 1..Len(scored) |-> TeamRow(scored[i], team_id)]

\* series.shift(1) at row i: the value of row i-1, NaN at the first row
Shift(col, i) == IF i = 1 THEN NaN ELSE F(col[i - 1])

\* the sum of the observations of the shifted series in rows lo..hi
RECURSIVE SumShifted(_, _, _)
SumShifted(col, lo, hi) ==
    IF lo > hi THEN 0
    ELSE (IF isna(Shift(col, lo)) THEN 0 ELSE Shift(col, lo)[1])
         + SumShifted(col, lo + 1, hi)

\* the rolling mean of the series itself, without the shift
RollingMeanUnshifted(col, i, window) ==
    LET lo == Max(1, i - window + 1)
    IN  Frac(SumSeq(col, lo, i), i - lo + 1)

\* rolling(window, min_periods=1).mean() of the shifted series at row i: the
\* mean of the observations among the last `window` rows up to row i
RollingMean(col, i, window) ==
    LET lo == Max(1, i - window + 1)
        count == Cardinality({j \in lo..i : ~isna(Shift(col, j))})
    IN  IF count < MinPeriods THEN NaN
        ELSE Frac(SumShifted(col, lo, i), count)

compute_rolling_features(df, window) ==
    LET pts == [i \in 1..Len(df) |-> df[i].points]
        gf == [i \in 1..Len(df) |-> df[i].goals_for]
        ga == [i \in 1..Len(df) |-> df[i].goals_against]
        gd == [i \in 1..Len(df) |-> df[i].goals_for - df[i].goals_against]
    IN  [i \in 1..Len(df) |->
            [kickoff |-> df[i].kickoff,
             points_rolling |-> RollingMean(pts, i, window),
             goals_for_rolling |-> RollingMean(gf, i, window),
             goals_against_rolling |-> RollingMean(ga, i, window),
             goal_diff_rolling |-> RollingMean(gd, i, window),
             rest_days |-> IF i = 1 THEN NaN
                           ELSE F(df[i].kickoff - df[i - 1].kickoff)]]

\* cold-start defaults that score a new team no points
DefaultFormPointless(n) ==
    [form_ppg |-> F(0), goals_for_per_match |-> F(1),
     goals_against_per_match |-> F(1), goal_diff_per_match |-> F(0),
     rest_days |-> F(DefaultRestDays), matches_available |-> n]

DefaultForm(n) ==
    [form_ppg |-> F(1), goals_for_per_match |-> F(1),
     goals_against_per_match |-> F(1), goal_diff_per_match |-> F(0),
     rest_days |-> F(DefaultRestDays), matches_available |-> n]

\* the form of a team with history: the last row of the rolling frame
LatestForm(latest, matches_available) ==
    IF isna(latest.points_rolling) THEN DefaultForm(matches_available)
    ELSE [form_ppg |-> latest.points_rolling,
          goals_for_per_match |-> latest.goals_for_rolling,
          goals_against_per_match |-> latest.goals_against_rolling,
          goal_diff_per_match |-> latest.goal_diff_rolling,
          rest_days |-> IF isna(latest.rest_days) THEN F(DefaultRestDays)
                        ELSE latest.rest_days,
          matches_available |-> matches_available]

get_team_form_features(db, team_id, season, match_date, window) ==
    LET history_df == get_team_match_history(db, team_id, season, match_date)
    IN  IF Len(history_df) = 0 THEN DefaultForm(0)
        ELSE LatestForm(compute_rolling_features(history_df, window)[Len(history_df)],
                        Len(history_df))

MetroCities == {"London", "Manchester", "Liverpool"}

same_city(match) == IF match.city \in MetroCities THEN F(1) ELSE F(0)

\* the home and away forms side by side, with their differences
MatchForm(home_form, away_form, match) ==
    [home_form_ppg |-> home_form.form_ppg,
     home_goals_for_per_match |-> home_form.goals_for_per_match,
     home_goals_against_per_match |-> home_form.goals_against_per_match,
     home_goal_diff_per_match |-> home_form.goal_diff_per_match,
     home_rest_days |-> home_form.rest_days,
     away_form_ppg |-> away_form.form_ppg,
     away_goals_for_per_match |-> away_form.goals_for_per_match,
     away_goals_against_per_match |-> away_form.goals_against_per_match,
     away_goal_diff_per_match |-> away_form.goal_diff_per_match,
     away_rest_days |-> away_form.rest_days,
     diff_form_ppg |-> FSub(home_form.form_ppg, away_form.form_ppg),
     diff_goals_for_per_match |->
         FSub(home_form.goals_for_per_match, away_form.goals_for_per_match),
     diff_goals_against_per_match |->
         FSub(home_form.goals_against_per_match, away_form.goals_against_per_match),
     diff_goal_diff_per_match |->
         FSub(home_form.goal_diff_per_match, away_form.goal_diff_per_match),
     diff_rest_days |-> FSub(home_form.rest_days, away_form.rest_days),
     home_flag |-> F(1),
     same_city |-> same_city(match),
     data_quality |-> [home_matches |-> home_form.matches_available,
                       away_matches |-> away_form.matches_available]]

get_match_form_features(db, match, window) ==
    MatchForm(get_team_form_features(db, match.home_team_id, match.season,
                                     match.utc_date, window),
              get_team_form_features(db, match.away_team_id, match.season,
                                     match.utc_date, window),
              match)

----------------------------------------------------------------------------
(* Standings snapshots: backend/ml/features/standings.py *)

SnapshotRows(db, season, matchday, team_id) ==
    {s \in db : s.season = season /\ s.matchday = matchday /\ s.team_id = team_id}

ColdStartStandings ==
    [position |-> F(DefaultPosition), played_games |-> F(0), points |-> F(0),
     goals_for |-> F(0), goals_against |-> F(0), goal_diff |-> F(0),
     cold_start |-> TRUE]

get_standings_at_matchday(db, season, matchday, team_id) ==
    LET prev_matchday == Max(1, matchday - 1)
        rows == SnapshotRows(db, season, prev_matchday, team_id)
    IN  IF rows # {}
        THEN LET snapshot == CHOOSE s \in rows : TRUE
             IN  [position |-> F(snapshot.position),
                  played_games |-> F(snapshot.played_games),
                  points |-> F(snapshot.points),
                  goals_for |-> F(snapshot.goals_for),
                  goals_against |-> F(snapshot.goals_against),
                  goal_diff |-> F(snapshot.goal_diff),
                  cold_start |-> FALSE]
        ELSE ColdStartStandings

\* the same reader with the two snapshots taken the other way round
get_rank_delta_reversed(db, season, matchday, team_id, window) ==
    LET current == SnapshotRows(db, season, matchday - 1, team_id)
        past == SnapshotRows(db, season, matchday - 1 - window, team_id)
    IN  IF matchday <= window THEN F(0)
        ELSE IF current # {} /\ past # {}
        THEN F((CHOOSE s \in current : TRUE).position - (CHOOSE s \in past : TRUE).position)
        ELSE F(0)

get_rank_delta(db, season, matchday, team_id, window) ==
    LET current == SnapshotRows(db, season, matchday - 1, team_id)
        past == SnapshotRows(db, season, matchday - 1 - window, team_id)
    IN  IF matchday <= window THEN F(0)
        ELSE IF current # {} /\ past # {}
        THEN F((CHOOSE s \in past : TRUE).position - (CHOOSE s \in current : TRUE).position)
        ELSE F(0)

get_match_standings_features(db, match) ==
    LET home_standings == get_standings_at_matchday(db, match.season, match.matchday,
                                                    match.home_team_id)
        away_standings == get_standings_at_matchday(db, match.season, match.matchday,
                                                    match.away_team_id)
        home_rank_delta == get_rank_delta(db, match.season, match.matchday,
                                          match.home_team_id, RollingWindow)
        away_rank_delta == get_rank_delta(db, match.season, match.matchday,
                                          match.away_team_id, RollingWindow)
    IN  [home_position |-> home_standings.position,
         home_points |-> home_standings.points,
         home_goal_diff |-> home_standings.goal_diff,
         home_rank_delta |-> home_rank_delta,
         home_cold_start |-> home_standings.cold_start,
         away_position |-> away_standings.position,
         away_points |-> away_standings.points,
         away_goal_diff |-> away_standings.goal_diff,
         away_rank_delta |-> away_rank_delta,
         away_cold_start |-> away_standings.cold_start,
         diff_position |-> FSub(home_standings.position, away_standings.position),
         diff_points |-> FSub(home_standings.points, away_standings.points),
         diff_goal_diff |-> FSub(home_standings.goal_diff, away_standings.goal_diff),
         diff_rank_delta |-> FSub(home_rank_delta, away_rank_delta),
         home_table_strength |-> FDiv(F(1), home_standings.position),
         away_table_strength |-> FDiv(F(1), away_standings.position),
         diff_table_strength |-> FSub(FDiv(F(1), home_standings.position),
                                      FDiv(F(1), away_standings.position))]

\* 1.0 / position raises ZeroDivisionError on a position of 0
StandingsRaises(db, match) ==
    \E t \in {match.home_team_id, match.away_team_id} :
        get_standings_at_matchday(db, match.season, match.matchday, t).position = F(0)

----------------------------------------------------------------------------
(* Head-to-head helpers: backend/ml/features/h2h.py *)

IsPair(m, home_team_id, away_team_id) ==
    \/ (m.home_team_id = home_team_id /\ m.away_team_id = away_team_id)
    \/ (m.home_team_id = away_team_id /\ m.away_team_id = home_team_id)

\* what an exception leaves in place of a result
Raised(what) == [error |-> what]

IsRaised(r) == "error" \in DOMAIN r

\* the same query without the strict bound on the kickoff date
H2HFilterLeaky(m, home_team_id, away_team_id, before_date) ==
    /\ m.utc_date <= before_date
    /\ IsPair(m, home_team_id, away_team_id)

H2HFilter(m, home_team_id, away_team_id, before_date) ==
    /\ m.utc_date < before_date
    /\ IsPair(m, home_team_id, away_team_id)

H2HMatchRow(m, home_team_id) ==
    LET is_home_team_home == m.home_team_id = home_team_id
        home_score == IF is_home_team_home THEN m.home_score ELSE m.away_score
        away_score == IF is_home_team_home THEN m.away_score ELSE m.home_score
    IN  [date |-> m.utc_date,
         home_score |-> home_score,
         away_score |-> away_score,
         result |-> IF home_score > away_score THEN "win"
                    ELSE IF home_score = away_score THEN "draw" ELSE "loss",
         venue |-> IF is_home_team_home THEN "home" ELSE "away",
         goal_diff |-> home_score - away_score]

\* comparing the scores of a row without scores raises TypeError
get_head_to_head_matches(db, home_team_id, away_team_id, before_date, limit) ==
    LET sel == {m \in db : H2HFilter(m, home_team_id, away_team_id, before_date)}
        found == Limit(Reverse(OrderByDate(sel)), limit)
    IN  IF \E i \in 1..Len(found) : ~HasScores(found[i]) THEN Raised("TypeError")
        ELSE [i \in 1..Len(found) |-> H2HMatchRow(found[i], home_team_id)]

compute_h2h_features(h2h_matches) ==
    LET n == Len(h2h_matches)
        Won(r) == r.result = "win"
        home_venue_matches == SelectSeq(h2h_matches, LAMBDA r : r.venue = "home")
        goals == [i \in 1..n |-> h2h_matches[i].home_score + h2h_matches[i].away_score]
        diffs == [i \in 1..n |-> h2h_matches[i].goal_diff]
    IN  IF n = 0
        THEN [h2h_wins |-> F(0), h2h_draws |-> F(0), h2h_losses |-> F(0),
              h2h_goal_diff |-> F(0), h2h_avg_goals |-> F(0),
              h2h_home_venue_wins |-> F(0), h2h_home_venue_matches |-> F(0),
              h2h_matches_count |-> F(0)]
        ELSE [h2h_wins |-> F(CountSeq(h2h_matches, Won)),
              h2h_draws |-> F(CountSeq(h2h_matches, LAMBDA r : r.result = "draw")),
              h2h_losses |-> F(CountSeq(h2h_matches, LAMBDA r : r.result = "loss")),
              h2h_goal_diff |-> F(SumSeq(diffs, 1, n)),
              h2h_avg_goals |-> Frac(SumSeq(goals, 1, n), n),
              h2h_home_venue_wins |-> F(CountSeq(home_venue_matches, Won)),
              h2h_home_venue_matches |-> F(Len(home_venue_matches)),
              h2h_matches_count |-> F(n)]

\* the derived keys get_match_h2h_features adds to the features of the pair
MatchH2HFeatures(h2h_features) ==
    Merge(h2h_features,
          [h2h_win_rate |->
               FDiv(h2h_features.h2h_wins,
                    F(Max(h2h_features.h2h_matches_count[1], 1))),
           h2h_home_venue_win_rate |->
               FDiv(h2h_features.h2h_home_venue_wins,
                    F(Max(h2h_features.h2h_home_venue_matches[1], 1)))])

----------------------------------------------------------------------------
(* Prioritized features: backend/ml/features/prioritized_features.py *)

\* the same query without the strict bound on the kickoff date
ExtendedH2HFilterLeaky(m, home_team_id, away_team_id, match_date) ==
    /\ m.utc_date <= match_date
    /\ m.status = "FINISHED"
    /\ HasScores(m)
    /\ IsPair(m, home_team_id, away_team_id)

ExtendedH2HFilter(m, home_team_id, away_team_id, match_date) ==
    /\ m.utc_date < match_date
    /\ m.status = "FINISHED"
    /\ HasScores(m)
    /\ IsPair(m, home_team_id, away_team_id)

H2HRow(m, home_team_id) ==
    LET is_home_team_home == m.home_team_id = home_team_id
        home_score == IF is_home_team_home THEN m.home_score ELSE m.away_score
        away_score == IF is_home_team_home THEN m.away_score ELSE m.home_score
    IN  [date |-> m.utc_date,
         result |-> IF home_score > away_score THEN "win"
                    ELSE IF home_score = away_score THEN "draw" ELSE "loss",
         venue |-> IF is_home_team_home THEN "home" ELSE "away",
         goal_diff |-> home_score - away_score,
         total_goals |-> home_score + away_score,
         season |-> m.season]

get_default_h2h_features ==
    [h2h_total_matches |-> F(0), h2h_wins |-> F(0), h2h_draws |-> F(0),
     h2h_losses |-> F(0), h2h_win_rate |-> Frac(1, 2), h2h_draw_rate |-> F(0),
     h2h_loss_rate |-> Frac(1, 2), h2h_goal_diff |-> F(0),
     h2h_avg_goals |-> Frac(5, 2), h2h_avg_goal_diff |-> F(0),
     h2h_home_venue_matches |-> F(0), h2h_home_venue_wins |-> F(0),
     h2h_home_venue_win_rate |-> Frac(1, 2), h2h_away_venue_matches |-> F(0),
     h2h_away_venue_wins |-> F(0), h2h_away_venue_win_rate |-> Frac(1, 2),
     h2h_recent_wins |-> F(0), h2h_recent_goal_diff |-> F(0),
     h2h_recent_win_rate |-> Frac(1, 2), h2h_current_season_matches |-> F(0),
     h2h_current_season_wins |-> F(0), h2h_current_season_win_rate |-> Frac(1, 2),
     h2h_dominance |-> F(0), h2h_goal_dominance |-> F(0)]

compute_extended_h2h_features(h2h_data) ==
    LET total_matches == Len(h2h_data)
        Won(r) == r.result = "win"
        AtHome(r) == r.venue = "home"
        AtAway(r) == r.venue = "away"
        wins == CountSeq(h2h_data, Won)
        draws == CountSeq(h2h_data, LAMBDA r : r.result = "draw")
        losses == CountSeq(h2h_data, LAMBDA r : r.result = "loss")
        goals == [i \in 1..total_matches |-> h2h_data[i].total_goals]
        diffs == [i \in 1..total_matches |-> h2h_data[i].goal_diff]
        total_goals == SumSeq(goals, 1, total_matches)
        goal_diff == SumSeq(diffs, 1, total_matches)
        home_venue_matches == SelectSeq(h2h_data, AtHome)
        away_venue_matches == SelectSeq(h2h_data, AtAway)
        home_venue_wins == CountSeq(home_venue_matches, Won)
        away_venue_wins == CountSeq(away_venue_matches, Won)
        recent_matches == Limit(h2h_data, RecentH2H)
        recent_wins == CountSeq(recent_matches, Won)
        recent_goal_diff == SumSeq(diffs, 1, Len(recent_matches))
        current_season_matches ==
            SelectSeq(h2h_data, LAMBDA r : r.season = h2h_data[1].season)
        current_season_wins == CountSeq(current_season_matches, Won)
    IN  IF total_matches = 0 THEN get_default_h2h_features
        ELSE
        [h2h_total_matches |-> F(total_matches),
         h2h_wins |-> F(wins),
         h2h_draws |-> F(draws),
         h2h_losses |-> F(losses),
         h2h_win_rate |-> Frac(wins, total_matches),
         h2h_draw_rate |-> Frac(draws, total_matches),
         h2h_loss_rate |-> Frac(losses, total_matches),
         h2h_goal_diff |-> F(goal_diff),
         h2h_avg_goals |-> Frac(total_goals, total_matches),
         h2h_avg_goal_diff |-> Frac(goal_diff, total_matches),
         h2h_home_venue_matches |-> F(Len(home_venue_matches)),
         h2h_home_venue_wins |-> F(home_venue_wins),
         h2h_home_venue_win_rate |->
             Frac(home_venue_wins, Max(Len(home_venue_matches), 1)),
         h2h_away_venue_matches |-> F(Len(away_venue_matches)),
         h2h_away_venue_wins |-> F(away_venue_wins),
         h2h_away_venue_win_rate |->
             Frac(away_venue_wins, Max(Len(away_venue_matches), 1)),
         h2h_recent_wins |-> F(recent_wins),
         h2h_recent_goal_diff |-> F(recent_goal_diff),
         h2h_recent_win_rate |-> Frac(recent_wins, Len(recent_matches)),
         h2h_current_season_matches |-> F(Len(current_season_matches)),
         h2h_current_season_wins |-> F(current_season_wins),
         h2h_current_season_win_rate |->
             Frac(current_season_wins, Max(Len(current_season_matches), 1)),
         h2h_dominance |-> Frac(wins - losses, total_matches),
         h2h_goal_dominance |-> Frac(goal_diff, Max(total_goals, 1))]

get_extended_h2h_features(db, home_team_id, away_team_id, match_date, limit) ==
    LET sel == {m \in db : ExtendedH2HFilter(m, home_team_id, away_team_id, match_date)}
        found == Limit(Reverse(OrderByDate(sel)), limit)
        h2h_data == [i \in 1..Len(found) |-> H2HRow(found[i], home_team_id)]
    IN  IF Len(found) = 0 THEN get_default_h2h_features
        ELSE compute_extended_h2h_features(h2h_data)

DefaultPrevStandings ==
    [position |-> DefaultPosition, points |-> DefaultPrevPoints, goal_diff |-> 0,
     played_games |-> DefaultPrevPlayed]

\* The rows the two queries for one team can answer with: the final snapshot of
\* the previous season or, without one, .order_by(season.desc()).first(), which
\* is any row of the team's latest season.
PrevStandingsRows(db, team_id, current_season) ==
    LET final == SnapshotRows(db, current_season - 1, FinalMatchday, team_id)
        mine == {s \in db : s.team_id = team_id}
        latest == {s \in mine : \A t \in mine : t.season <= s.season}
    IN  IF final # {} THEN final ELSE latest

PrevStandingsData(db, team_id, current_season) ==
    LET rows == PrevStandingsRows(db, team_id, current_season)
    IN  IF rows = {} THEN {DefaultPrevStandings}
        ELSE {[position |-> r.position, points |-> r.points,
               goal_diff |-> r.goal_diff, played_games |-> r.played_games] : r \in rows}

PrevSeasonFeatures(home_data, away_data) ==
    IF home_data.played_games = 0 \/ away_data.played_games = 0
       \/ home_data.position = 0 \/ away_data.position = 0
    THEN Raised("ZeroDivisionError")
    ELSE
    [prev_season_home_position |-> F(home_data.position),
     prev_season_away_position |-> F(away_data.position),
     prev_season_home_points |-> F(home_data.points),
     prev_season_away_points |-> F(away_data.points),
     prev_season_home_goal_diff |-> F(home_data.goal_diff),
     prev_season_away_goal_diff |-> F(away_data.goal_diff),
     prev_season_diff_position |-> F(home_data.position - away_data.position),
     prev_season_diff_points |-> F(home_data.points - away_data.points),
     prev_season_diff_goal_diff |-> F(home_data.goal_diff - away_data.goal_diff),
     prev_season_home_points_per_game |-> Frac(home_data.points, home_data.played_games),
     prev_season_away_points_per_game |-> Frac(away_data.points, away_data.played_games),
     prev_season_diff_points_per_game |->
         Frac(home_data.points - away_data.points, SeasonGames),
     prev_season_home_quality |-> Frac(1, home_data.position),
     prev_season_away_quality |-> Frac(1, away_data.position),
     prev_season_diff_quality |->
         FSub(Frac(1, home_data.position), Frac(1, away_data.position))]

\* every result the function can give on this store (one per answer of .first())
get_previous_season_standings(db, home_team_id, away_team_id, current_season) ==
    {PrevSeasonFeatures(h, a) :
        h \in PrevStandingsData(db, home_team_id, current_season),
        a \in PrevStandingsData(db, away_team_id, current_season)}

get_prioritized_match_features(mdb, sdb, match) ==
    LET h2h_features == get_extended_h2h_features(mdb, match.home_team_id,
                            match.away_team_id, match.utc_date, ExtendedH2HLimit)
        current_form_features == get_match_form_features(mdb, match, RollingWindow)
        current_standings_features == get_match_standings_features(sdb, match)
        context == [home_flag |-> F(1), same_city |-> same_city(match)]
    IN  {IF IsRaised(prev_season_features) THEN prev_season_features
         ELSE IF StandingsRaises(sdb, match) THEN Raised("ZeroDivisionError")
         ELSE Merge(Merge(Merge(Merge(h2h_features, prev_season_features),
                                current_form_features),
                          current_standings_features),
                    context) :
         prev_season_features \in
             get_previous_season_standings(sdb, match.home_team_id,
                                           match.away_team_id, match.season)}

get_prioritized_feature_columns ==
    <<"h2h_total_matches", "h2h_wins", "h2h_draws", "h2h_losses", "h2h_win_rate",
      "h2h_draw_rate", "h2h_loss_rate", "h2h_goal_diff", "h2h_avg_goals",
      "h2h_avg_goal_diff", "h2h_home_venue_matches", "h2h_home_venue_wins",
      "h2h_home_venue_win_rate", "h2h_away_venue_matches", "h2h_away_venue_wins",
      "h2h_away_venue_win_rate", "h2h_recent_wins", "h2h_recent_goal_diff",
      "h2h_recent_win_rate", "h2h_current_season_matches", "h2h_current_season_wins",
      "h2h_current_season_win_rate", "h2h_dominance", "h2h_goal_dominance",
      "prev_season_home_position", "prev_season_away_position",
      "prev_season_home_points", "prev_season_away_points",
      "prev_season_home_goal_diff", "prev_season_away_goal_diff",
      "prev_season_diff_position", "prev_season_diff_points",
      "prev_season_diff_goal_diff", "prev_season_home_points_per_game",
      "prev_season_away_points_per_game", "prev_season_diff_points_per_game",
      "prev_season_home_quality", "prev_season_away_quality",
      "prev_season_diff_quality",
      "diff_form_ppg", "diff_goals_for_per_match", "diff_goals_against_per_match",
      "diff_goal_diff_per_match", "diff_rest_days", "diff_position", "diff_points",
      "diff_goal_diff", "diff_rank_delta", "diff_table_strength",
      "home_flag", "same_city">>

----------------------------------------------------------------------------
(* Feature composer and its cache: backend/ml/features/build.py *)

build_match_features(mdb, sdb, match) ==
    {IF IsRaised(all_features) THEN all_features
     ELSE Merge(all_features,
                [match_id |-> match.id, season |-> match.season,
                 matchday |-> match.matchday, home_team_id |-> match.home_team_id,
                 away_team_id |-> match.away_team_id]) :
     all_features \in get_prioritized_match_features(mdb, sdb, match)}

----------------------------------------------------------------------------
(* Values of the stores *)

Absent == [run |-> 0]
NoJob == [kind |-> "none"]
NoRequest == [op |-> "none"]
NoRows == <<>>

\* status and score of a match row: scores are both null or both set
Outcomes ==
    {[status |-> "SCHEDULED", home_score |-> None, away_score |-> None],
     [status |-> "IN_PLAY", home_score |-> 1, away_score |-> 0],
     [status |-> "FINISHED", home_score |-> 1, away_score |-> 0],
     [status |-> "FINISHED", home_score |-> 0, away_score |-> 1],
     [status |-> "FINISHED", home_score |-> 1, away_score |-> 1],
     [status |-> "FINISHED", home_score |-> None, away_score |-> None]}

\* the venue city is the home side's
CityOf(team_id) == IF team_id = 1 THEN "London" ELSE IF team_id = 2 THEN "Leeds" ELSE ""

MatchRow(id, season, utc_date, matchday, home, away, o) ==
    [id |-> id, season |-> season, utc_date |-> utc_date, matchday |-> matchday,
     home_team_id |-> home, away_team_id |-> away, home_score |-> o.home_score,
     away_score |-> o.away_score, status |-> o.status, city |-> CityOf(home)]

StatRows ==
    {[position |-> 1, played_games |-> 2, points |-> 6, goals_for |-> 4,
      goals_against |-> 1, goal_diff |-> 3],
     [position |-> 2, played_games |-> 2, points |-> 3, goals_for |-> 2,
      goals_against |-> 2, goal_diff |-> 0],
     [position |-> 3, played_games |-> 0, points |-> 0, goals_for |-> 0,
      goals_against |-> 0, goal_diff |-> 0]}

SnapshotRow(season, matchday, team_id, st) ==
    [season |-> season, matchday |-> matchday, team_id |-> team_id,
     position |-> st.position, played_games |-> st.played_games,
     points |-> st.points, goals_for |-> st.goals_for,
     goals_against |-> st.goals_against, goal_diff |-> st.goal_diff]

Stat(position) == CHOOSE st \in StatRows : st.position = position

SeedSnapshots ==
    {SnapshotRow(1, FinalMatchday, 1, Stat(1)),
     SnapshotRow(1, FinalMatchday, 2, Stat(2)),
     SnapshotRow(2, 1, 1, Stat(2))}

Finished(h, a) == [status |-> "FINISHED", home_score |-> h, away_score |-> a]

Scheduled == [status |-> "SCHEDULED", home_score |-> None, away_score |-> None]

\* two played rounds of season 1 between teams 1 and 2
SeedMatches ==
    {MatchRow(1, 1, 1, 1, 1, 2, Finished(1, 0)),
     MatchRow(2, 1, 2, 2, 2, 1, Finished(1, 1))}

Callers == 1..NumCallers

NoMap == [none |-> TRUE]

IdleCall ==
    [pc |-> "idle", match_id |-> 0, built |-> FALSE, fv |-> NoMap,
     existing |-> FALSE, result |-> NoMap]

ServingIdle ==
    /\ features = NoRows
    /\ predictions = NoRows
    /\ h2hCache = NoRows
    /\ modelFile = Absent
    /\ scalerFile = Absent
    /\ metaFile = Absent
    /\ model = Absent
    /\ scaler = Absent
    /\ metadata = Absent
    /\ job = NoJob
    /\ saved = <<>>
    /\ runs = 0
    /\ now = [day |-> 1, minute |-> 1]
    /\ last = NoRequest
    /\ calls = [c \in Callers |-> IdleCall]

----------------------------------------------------------------------------
(* The history store: match rows arrive from ingestion *)

InsertMatch(season, utc_date, matchday, home, away, o) ==
    /\ Cardinality(matches) < Cardinality(SeedMatches) + MaxMatches
    /\ home # away
    /\ matches' = matches \cup
           {MatchRow(Cardinality(matches) + 1, season, utc_date, matchday, home, away, o)}
    /\ UNCHANGED <<calls, snapshots, tableVars, fileVars, globalVars, trainVars, last>>

InitHistory ==
    /\ matches = SeedMatches
    /\ snapshots = SeedSnapshots
    /\ ServingIdle

NextHistory ==
    \E season \in Seasons, utc_date \in Dates, matchday \in 1..MaxMatchday,
       home \in Teams, away \in Teams, o \in Outcomes :
        InsertMatch(season, utc_date, matchday, home, away, o)

SpecHistory == InitHistory /\ [][NextHistory]_vars

(* The standings store: one snapshot per (season, matchday, team), append-only *)

InsertSnapshot(season, matchday, team_id, st) ==
    /\ Cardinality(snapshots) < MaxSnapshots
    /\ SnapshotRows(snapshots, season, matchday, team_id) = {}
    /\ snapshots' = snapshots \cup {SnapshotRow(season, matchday, team_id, st)}
    /\ UNCHANGED <<calls, matches, tableVars, fileVars, globalVars, trainVars, last>>

InitStandings ==
    /\ matches = {}
    /\ snapshots = {}
    /\ ServingIdle

NextStandings ==
    \E season \in Seasons, matchday \in Matchdays, team_id \in Teams, st \in StatRows :
        InsertSnapshot(season, matchday, team_id, st)

SpecStandings == InitStandings /\ [][NextStandings]_vars

----------------------------------------------------------------------------
(* Feature cache: backend/ml/features/build.py *)

Put(table, key, row) == (key :> row) @@ table

save_features_to_db(table, match_id, fv) == Put(table, match_id, fv)

MatchById(db, match_id) == {m \in db : m.id = match_id}

\* every outcome of one call: the value returned (or the exception raised) and
\* the features_match table it leaves
\* the cache lookup that never finds a row
CacheNeverHit(table, match_id) == FALSE

\* features_record = db.query(FeaturesMatch)...first(); if features_record:
CacheHit(table, match_id) == match_id \in DOMAIN table

get_features_for_match(table, mdb, sdb, match_id) ==
    IF CacheHit(table, match_id)
    THEN {[value |-> table[match_id], table |-> table]}
    ELSE IF MatchById(mdb, match_id) = {}
    THEN {[value |-> Raised("ValueError"), table |-> table]}
    ELSE {IF IsRaised(fv) THEN [value |-> fv, table |-> table]
          ELSE [value |-> fv, table |-> save_features_to_db(table, match_id, fv)] :
          fv \in build_match_features(mdb, sdb, CHOOSE m \in MatchById(mdb, match_id) : TRUE)}

----------------------------------------------------------------------------
(* Training and retraining runs: train.py fit, learn_from_mistakes.py *)

Algos == {"xgb", "lr"}

\* f"{algo}_{datetime.now().strftime('%Y-%m-%d')}"
FitVersion(algo, t) == [algo |-> algo, retrained |-> FALSE, day |-> t.day, minute |-> 0]

\* f"{algorithm}_retrained_{datetime.now().strftime('%Y-%m-%d_%H%M')}"
RetrainVersion(algo, t) ==
    [algo |-> algo, retrained |-> TRUE, day |-> t.day, minute |-> t.minute]

NoVersion == [algo |-> "none", retrained |-> FALSE, day |-> 0, minute |-> 0]

get_feature_columns == get_prioritized_feature_columns

FitMetadata(run, algo, version) ==
    [run |-> run, model_version |-> version, algorithm |-> algo,
     feature_names |-> get_prioritized_feature_columns]

RetrainMetadata(run, algo, version) ==
    [run |-> run, model_version |-> version, algorithm |-> algo,
     retraining_reason |-> "learning_from_mistakes"]

\* the run has its model and scaler in memory and reaches the save code
StartRun(kind, algo) ==
    /\ job = NoJob
    /\ runs < MaxRuns
    /\ runs' = runs + 1
    /\ job' = [kind |-> kind, algo |-> algo, run |-> runs + 1, pc |-> "trained",
               version |-> NoVersion]
    /\ UNCHANGED <<calls, storeVars, tableVars, fileVars, globalVars, saved, now, last>>

\* fit names its version, then joblib.dump(results['model'], model_path)
DumpModel ==
    /\ job # NoJob
    /\ job.pc = "trained"
    /\ modelFile' = [run |-> job.run]
    /\ job' = [job EXCEPT !.pc = "model_written",
                          !.version = IF job.kind = "fit" THEN FitVersion(job.algo, now)
                                      ELSE NoVersion]
    /\ UNCHANGED <<calls, storeVars, tableVars, scalerFile, metaFile, globalVars, saved, runs,
                   now, last>>

\* joblib.dump(scaler, scaler_path)
DumpScaler ==
    /\ job # NoJob
    /\ job.pc = "model_written"
    /\ scalerFile' = [run |-> job.run]
    /\ job' = [job EXCEPT !.pc = "scaler_written"]
    /\ UNCHANGED <<calls, storeVars, tableVars, modelFile, metaFile, globalVars, saved, runs,
                   now, last>>

\* json.dump(metadata, f): retraining names its version only now
DumpMetadata ==
    /\ job # NoJob
    /\ job.pc = "scaler_written"
    /\ LET version == IF job.kind = "fit" THEN job.version
                      ELSE RetrainVersion(job.algo, now)
       IN  /\ metaFile' = IF job.kind = "fit"
                          THEN FitMetadata(job.run, job.algo, version)
                          ELSE RetrainMetadata(job.run, job.algo, version)
           /\ saved' = Append(saved, version)
    /\ job' = NoJob
    /\ UNCHANGED <<calls, storeVars, tableVars, modelFile, scalerFile, globalVars, runs, now,
                   last>>

\* the run is killed or raises between two of its steps
AbortRun ==
    /\ job # NoJob
    /\ job' = NoJob
    /\ UNCHANGED <<calls, storeVars, tableVars, fileVars, globalVars, saved, runs, now, last>>

TickMinute ==
    /\ now.minute < MaxMinute
    /\ now' = [now EXCEPT !.minute = @ + 1]
    /\ UNCHANGED <<calls, storeVars, tableVars, fileVars, globalVars, job, saved, runs, last>>

TickDay ==
    /\ now.day < MaxDay
    /\ now' = [day |-> now.day + 1, minute |-> 1]
    /\ UNCHANGED <<calls, storeVars, tableVars, fileVars, globalVars, job, saved, runs, last>>

----------------------------------------------------------------------------
(* Prediction adapter: backend/api/ml_api.py *)

\* the globals load_model leaves, and whether it raised
\* a loader without the `if model is None` guard: every call reads the files
load_model_every_call ==
    IF modelFile = Absent
    THEN [model |-> model, scaler |-> scaler, metadata |-> metadata, raised |-> TRUE]
    ELSE IF scalerFile = Absent
    THEN [model |-> modelFile, scaler |-> scaler, metadata |-> metadata, raised |-> TRUE]
    ELSE [model |-> modelFile, scaler |-> scalerFile,
          metadata |-> IF metaFile # Absent THEN metaFile ELSE metadata,
          raised |-> FALSE]

load_model ==
    IF model # Absent
    THEN [model |-> model, scaler |-> scaler, metadata |-> metadata, raised |-> FALSE]
    ELSE IF modelFile = Absent
    THEN [model |-> model, scaler |-> scaler, metadata |-> metadata, raised |-> TRUE]
    ELSE IF scalerFile = Absent
    THEN [model |-> modelFile, scaler |-> scaler, metadata |-> metadata, raised |-> TRUE]
    ELSE [model |-> modelFile, scaler |-> scalerFile,
          metadata |-> IF metaFile # Absent THEN metaFile ELSE metadata,
          raised |-> FALSE]

NoProbs == [by_model |-> 0]

Response(op, match_id, status, detail) ==
    [op |-> op, match_id |-> match_id, status |-> status, detail |-> detail,
     ready |-> FALSE, scaler_called |-> FALSE, model_called |-> FALSE,
     wrote_features |-> FALSE, wrote_prediction |-> FALSE,
     features_raised |-> FALSE, batch |-> <<>>, predicted |-> <<>>,
     existing |-> [match_id |-> 0, probs |-> [by_model |-> 0],
                   model_version |-> [algo |-> "none", retrained |-> FALSE,
                                      day |-> 0, minute |-> 0],
                   calibrated |-> FALSE],
     cols |-> <<>>, missing |-> {}, coerced |-> {}, probs |-> NoProbs,
     model_version |-> NoVersion]

\* value = features.get(col, 0.0); if pd.isna(value): value = 0.0
FeatureValue(fv, col) ==
    IF col \in DOMAIN fv /\ ~isna(fv[col]) THEN fv[col] ELSE F(0)

Encode(fv, cols) == [i \in 1..Len(cols) |-> FeatureValue(fv, cols[i])]

\* the schema columns the vector has no key for
Missing(keys, cols) == {cols[i] : i \in {j \in 1..Len(cols) : cols[j] \notin keys}}

\* the schema columns the encoding filled in with 0.0
Coerced(fv, cols) ==
    {cols[i] : i \in {j \in 1..Len(cols) : cols[j] \notin DOMAIN fv \/ isna(fv[cols[j]])}}

\* model.predict_proba(scaler.transform(X))[0]: fixed by the two objects and X
predict_proba(m, sc, X) == [by_model |-> m.run, by_scaler |-> sc.run, of |-> X]

PredictionRow(match_id, probs, version) ==
    [match_id |-> match_id, probs |-> probs, model_version |-> version,
     calibrated |-> FALSE]

\* the update-or-insert of the Prediction row, without refreshing an
\* existing row
insert_prediction_once(table, match_id, row) ==
    IF match_id \in DOMAIN table THEN table ELSE Put(table, match_id, row)

\* existing = ...first(); if existing: overwrite its fields, else db.add
upsert_prediction(table, match_id, row) == Put(table, match_id, row)

NoPrediction == PredictionRow(0, NoProbs, NoVersion)

predict_match(match_id) ==
    LET ld == load_model
        found == MatchById(matches, match_id)
        match == CHOOSE m \in found : TRUE
        ready == ld.model # Absent /\ ld.scaler # Absent
        R(status, detail) ==
            [Response("predict", match_id, status, detail) EXCEPT !.ready = ready]
    IN  /\ model' = ld.model
        /\ scaler' = ld.scaler
        /\ metadata' = ld.metadata
        /\ UNCHANGED <<calls, storeVars, h2hCache, fileVars, trainVars>>
        /\ IF ld.raised
           THEN /\ last' = R(500, "service not ready")
                /\ UNCHANGED <<features, predictions>>
           ELSE IF found = {}
           THEN /\ last' = R(404, "not found")
                /\ UNCHANGED <<features, predictions>>
           ELSE IF match.status = "FINISHED"
           THEN /\ last' = R(400, "finished")
                /\ UNCHANGED <<features, predictions>>
           ELSE \E got \in get_features_for_match(features, matches, snapshots, match_id) :
                LET cols == get_feature_columns
                    X == Encode(got.value, cols)
                    probs == predict_proba(ld.model, ld.scaler, X)
                    wrote == got.table # features
                    E(status, detail) ==
                        [R(status, detail) EXCEPT !.wrote_features = wrote,
                            !.cols = cols,
                            !.missing = Missing(DOMAIN got.value, cols),
                            !.coerced = Coerced(got.value, cols)]
                IN  IF IsRaised(got.value)
                    THEN /\ last' = [R(422, "insufficient history") EXCEPT
                                        !.features_raised = TRUE]
                         /\ UNCHANGED <<features, predictions>>
                    ELSE /\ features' = got.table
                         /\ IF ld.scaler = Absent
                            THEN \* scaler.transform on None: AttributeError
                                 /\ last' = E(500, "unhandled")
                                 /\ UNCHANGED predictions
                            ELSE IF ld.metadata = Absent
                            THEN \* metadata.get on None, after predict_proba
                                 /\ last' = [E(500, "unhandled") EXCEPT
                                                !.scaler_called = TRUE,
                                                !.model_called = TRUE]
                                 /\ UNCHANGED predictions
                            ELSE /\ predictions' =
                                        upsert_prediction(predictions, match_id,
                                            PredictionRow(match_id, probs,
                                                          ld.metadata.model_version))
                                 /\ last' = [E(200, "ok") EXCEPT
                                                !.existing =
                                                    IF match_id \in DOMAIN predictions
                                                    THEN predictions[match_id]
                                                    ELSE NoPrediction,
                                                !.scaler_called = TRUE,
                                                !.model_called = TRUE,
                                                !.wrote_prediction = TRUE,
                                                !.probs = probs,
                                                !.model_version =
                                                    ld.metadata.model_version]

\* POST /batch/predict: "model, scaler, metadata = load_model()" unpacks the
\* None load_model returns, so after load_model has run the TypeError is
\* answered 500 and the loop over match_ids is never entered
batch_predict_matches(match_ids) ==
    LET ld == load_model
    IN  /\ model' = ld.model
        /\ scaler' = ld.scaler
        /\ metadata' = ld.metadata
        /\ last' = [Response("batch", 0, 500,
                              IF ld.raised THEN "service not ready" ELSE "unhandled")
                        EXCEPT !.batch = match_ids,
                               !.ready = ld.model # Absent /\ ld.scaler # Absent]
        /\ UNCHANGED <<calls, storeVars, tableVars, fileVars, trainVars>>

\* GET /health: load_model, every exception answered "unhealthy"
health_check ==
    LET ld == load_model
    IN  /\ model' = ld.model
        /\ scaler' = ld.scaler
        /\ metadata' = ld.metadata
        /\ last' = Response("health", 0, 200,
                            IF ld.raised THEN "unhealthy" ELSE "healthy")
        /\ UNCHANGED <<calls, storeVars, tableVars, fileVars, trainVars>>

----------------------------------------------------------------------------
(* The test surface: app/api.py, whose collaborators the tests patch *)

\* tests/test_api.py mock_features
MockFeatures ==
    [diff_form_ppg |-> Frac(1, 2), diff_goals_for_per_match |-> Frac(1, 5),
     home_flag |-> F(1), data_quality |-> [home_matches |-> 5, away_matches |-> 5]]

MockFeatureKeys ==
    <<"diff_form_ppg", "diff_goals_for_per_match", "home_flag", "data_quality">>

\* what the patched get_features_for_match answers
AppFeatureStubs == {Raised("Exception"), MockFeatures}

\* patched: app.api.model and app.api.scaler are replaced by mocks (else None)
predict(match_id, stub, patched) ==
    LET found == MatchById(matches, match_id)
        match == CHOOSE m \in found : TRUE
        R(status, detail) == Response("app_predict", match_id, status, detail)
        mock == [run |-> MaxRuns + 1]
        missing == Missing(DOMAIN stub, get_feature_columns)
    IN  /\ UNCHANGED <<calls, storeVars, tableVars, fileVars, globalVars, trainVars>>
        /\ last' =
             IF found = {} THEN R(404, "not found")
             ELSE IF match.status = "FINISHED" THEN R(400, "finished")
             ELSE IF IsRaised(stub)
             THEN \* no handler around get_features_for_match
                  [R(500, "unhandled") EXCEPT !.features_raised = TRUE]
             ELSE IF ~patched THEN [R(500, "unhandled") EXCEPT
                                      !.cols = MockFeatureKeys, !.missing = missing]
             ELSE [R(200, "ok") EXCEPT
                      !.missing = missing,
                      !.ready = TRUE, !.scaler_called = TRUE, !.model_called = TRUE,
                      !.cols = MockFeatureKeys,
                      !.probs = predict_proba(mock, mock,
                                    [i \in 1..Len(MockFeatureKeys) |->
                                        stub[MockFeatureKeys[i]]])]

\* the ids of a batch the loop would answer: present and not FINISHED
Eligible(match_id) ==
    /\ MatchById(matches, match_id) # {}
    /\ (CHOOSE m \in MatchById(matches, match_id) : TRUE).status # "FINISHED"

\* the test surface's POST /batch/predict: one stub answers every id
batch_predict(match_ids, stub, patched) ==
    LET R(status, detail) ==
            [Response("app_batch", 0, status, detail) EXCEPT !.batch = match_ids]
        todo == SelectSeq(match_ids, Eligible)
    IN  /\ UNCHANGED <<calls, storeVars, tableVars, fileVars, globalVars, trainVars>>
        /\ last' =
             IF todo = <<>> THEN R(200, "ok")
             ELSE IF IsRaised(stub)
             THEN [R(500, "unhandled") EXCEPT !.features_raised = TRUE]
             ELSE IF ~patched THEN R(500, "unhandled")
             ELSE [R(200, "ok") EXCEPT !.predicted = todo, !.ready = TRUE,
                      !.scaler_called = TRUE, !.model_called = TRUE]

----------------------------------------------------------------------------
(* The serving system: a fixed history, the adapter, and offline runs *)

ServingMatches ==
    SeedMatches \cup
    {MatchRow(3, 1, 3, 2, 1, 2, Scheduled),
     MatchRow(4, 2, 3, 1, 3, 1, Scheduled)}

\* team 3 ended season 1 without a game played
ServingSnapshots == SeedSnapshots \cup {SnapshotRow(1, FinalMatchday, 3, Stat(3))}

\* an id no Match row has
UnknownMatchId == Cardinality(ServingMatches) + 1

MatchIds == {m.id : m \in ServingMatches} \cup {UnknownMatchId}

Batches == UNION {[1..n -> MatchIds] : n \in 0..MaxBatch}

Init ==
    /\ matches = ServingMatches
    /\ snapshots = ServingSnapshots
    /\ ServingIdle

Next ==
    \/ \E kind \in {"fit", "retrain"}, algo \in Algos : StartRun(kind, algo)
    \/ DumpModel
    \/ DumpScaler
    \/ DumpMetadata
    \/ AbortRun
    \/ TickMinute
    \/ TickDay
    \/ \E match_id \in MatchIds : predict_match(match_id)
    \/ health_check
    \/ \E match_id \in MatchIds, stub \in AppFeatureStubs, patched \in BOOLEAN :
           predict(match_id, stub, patched)

Spec == Init /\ [][Next]_vars

\* the batch endpoints beside the offline runs
NextBatch ==
    \/ \E kind \in {"fit", "retrain"}, algo \in Algos : StartRun(kind, algo)
    \/ DumpModel
    \/ DumpScaler
    \/ DumpMetadata
    \/ AbortRun
    \/ \E match_ids \in Batches : batch_predict_matches(match_ids)
    \/ \E match_ids \in Batches, stub \in AppFeatureStubs, patched \in BOOLEAN :
           batch_predict(match_ids, stub, patched)

SpecBatch == Init /\ [][NextBatch]_vars

\* the serving process is stopped and started again: its globals are None
Restart ==
    /\ model # Absent
    /\ model' = Absent
    /\ scaler' = Absent
    /\ metadata' = Absent
    /\ UNCHANGED <<calls, storeVars, tableVars, fileVars, trainVars, last>>

\* predictions over several artifacts and several lives of the process
NextPredictions ==
    \/ \E kind \in {"fit", "retrain"}, algo \in Algos : StartRun(kind, algo)
    \/ DumpModel
    \/ DumpScaler
    \/ DumpMetadata
    \/ Restart
    \/ \E match_id \in MatchIds : predict_match(match_id)

SpecPredictions == Init /\ [][NextPredictions]_vars

----------------------------------------------------------------------------
(* Concurrent callers of get_features_for_match, one database statement a step *)

CallUnchanged ==
    UNCHANGED <<storeVars, predictions, h2hCache, fileVars, globalVars, trainVars, last>>

\* the cache query, the Match query and the build: reads only
LookupFeatures(c, match_id) ==
    /\ calls[c].pc = "idle"
    /\ IF CacheHit(features, match_id)
       THEN calls' = [calls EXCEPT ![c] =
                [IdleCall EXCEPT !.pc = "returned", !.match_id = match_id,
                                 !.result = features[match_id]]]
       ELSE IF MatchById(matches, match_id) = {}
       THEN calls' = [calls EXCEPT ![c] =
                [IdleCall EXCEPT !.pc = "raised", !.match_id = match_id,
                                 !.result = Raised("ValueError")]]
       ELSE \E fv \in build_match_features(matches, snapshots,
                          CHOOSE m \in MatchById(matches, match_id) : TRUE) :
                calls' = [calls EXCEPT ![c] =
                    IF IsRaised(fv)
                    THEN [IdleCall EXCEPT !.pc = "raised", !.match_id = match_id,
                                          !.built = TRUE, !.result = fv]
                    ELSE [IdleCall EXCEPT !.pc = "built", !.match_id = match_id,
                                          !.built = TRUE, !.fv = fv]]
    /\ UNCHANGED features
    /\ CallUnchanged

\* save_features_to_db: existing = db.query(FeaturesMatch)...first()
QueryExisting(c) ==
    /\ calls[c].pc = "built"
    /\ calls' = [calls EXCEPT ![c].pc = "saving",
                              ![c].existing = calls[c].match_id \in DOMAIN features]
    /\ UNCHANGED features
    /\ CallUnchanged

\* save_features_to_db: db.commit() flushes the UPDATE of the existing row, or
\* the INSERT, which the primary key match_id rejects if a row is there by now
CommitFeatures(c) ==
    /\ calls[c].pc = "saving"
    /\ IF ~calls[c].existing /\ calls[c].match_id \in DOMAIN features
       THEN /\ calls' = [calls EXCEPT ![c].pc = "raised",
                                      ![c].result = Raised("IntegrityError")]
            /\ UNCHANGED features
       ELSE /\ features' = save_features_to_db(features, calls[c].match_id, calls[c].fv)
            /\ calls' = [calls EXCEPT ![c].pc = "returned", ![c].result = calls[c].fv]
    /\ CallUnchanged

\* the caller takes the outcome and may call again
FinishCall(c) ==
    /\ calls[c].pc \in {"returned", "raised"}
    /\ calls' = [calls EXCEPT ![c] = IdleCall]
    /\ UNCHANGED features
    /\ CallUnchanged

NextCache ==
    \/ \E c \in Callers, match_id \in MatchIds : LookupFeatures(c, match_id)
    \/ \E c \in Callers : QueryExisting(c)
    \/ \E c \in Callers : CommitFeatures(c)
    \/ \E c \in Callers : FinishCall(c)

SpecCache == Init /\ [][NextCache]_vars

----------------------------------------------------------------------------
(* The head-to-head cache: get_h2h_features of backend/ml/features/h2h.py *)

\* match_date.year, the calendar cut into years of YearLength days
YearOf(date) == (date - 1) \div YearLength

NoEntry == [none |-> TRUE]

\* the stored date may equal the requested one
CacheEntryValidSameDate(entry, match_date) == entry.match_date <= match_date

\* cached_data.get('match_date') < match_date.isoformat()
CacheEntryValid(entry, match_date) == entry.match_date < match_date

\* one of the rows get_head_to_head_matches reads has no scores to compare
H2HQueryRaises(db, home_team_id, away_team_id, before_date, limit) ==
    LET sel == {m \in db : H2HFilter(m, home_team_id, away_team_id, before_date)}
        found == Limit(Reverse(OrderByDate(sel)), limit)
    IN  \E i \in 1..Len(found) : ~HasScores(found[i])

H2HKey(home_team_id, away_team_id, match_date) ==
    <<home_team_id, away_team_id, YearOf(match_date)>>

H2HResponse(home_team_id, away_team_id, match_date, cache_entry, reused, result) ==
    [op |-> "h2h", home_team_id |-> home_team_id, away_team_id |-> away_team_id,
     match_date |-> match_date, cache_entry |-> cache_entry, reused |-> reused,
     features |-> result]

get_h2h_features(home_team_id, away_team_id, match_date, limit) ==
    LET key == H2HKey(home_team_id, away_team_id, match_date)
        cache_entry == IF key \in DOMAIN h2hCache THEN h2hCache[key] ELSE NoEntry
        h2h_matches == get_head_to_head_matches(matches, home_team_id, away_team_id,
                                                match_date, limit)
        R(reused, result) ==
            H2HResponse(home_team_id, away_team_id, match_date, cache_entry, reused,
                        result)
    IN  /\ IF cache_entry # NoEntry /\ CacheEntryValid(cache_entry, match_date)
           THEN /\ last' = R(TRUE, cache_entry.features)
                /\ UNCHANGED h2hCache
           ELSE IF H2HQueryRaises(matches, home_team_id, away_team_id, match_date, limit)
           THEN /\ last' = R(FALSE, Raised("TypeError"))
                /\ UNCHANGED h2hCache
           ELSE /\ last' = R(FALSE, compute_h2h_features(h2h_matches))
                /\ h2hCache' = Put(h2hCache, key,
                                   [match_date |-> match_date,
                                    features |-> compute_h2h_features(h2h_matches)])
        /\ UNCHANGED <<calls, storeVars, features, predictions, fileVars, globalVars,
                       trainVars>>

H2HTeams == {1, 2}

\* a fixture of the pair is ingested, played or not
InsertFixture(utc_date, home, away, o) ==
    /\ Cardinality(matches) < Cardinality(SeedMatches) + MaxH2HInserts
    /\ InsertMatch(1, utc_date, 1, home, away, o)

RequestH2H(home_team_id, away_team_id, match_date) ==
    /\ home_team_id # away_team_id
    /\ get_h2h_features(home_team_id, away_team_id, match_date, H2HLimit)

NextH2H ==
    \/ \E utc_date \in Dates, home \in H2HTeams, away \in H2HTeams, o \in Outcomes :
           InsertFixture(utc_date, home, away, o)
    \/ \E home \in H2HTeams, away \in H2HTeams, match_date \in Dates :
           RequestH2H(home, away, match_date)

SpecH2H == InitHistory /\ [][NextH2H]_vars

----------------------------------------------------------------------------
(* The dataset builder: backend/ml/training/dataset.py *)

\* 2 = home win, 1 = draw, 0 = away win; None without a score
create_labels(match) ==
    IF ~HasScores(match) THEN None
    ELSE IF match.home_score > match.away_score THEN 2
    ELSE IF match.home_score = match.away_score THEN 1
    ELSE 0

\* the finished, scored matches of one season, by kickoff
TrainingQuery(db, season) ==
    OrderByDate({m \in db : /\ m.season = season
                            /\ m.status = "FINISHED"
                            /\ HasScores(m)})

RECURSIVE TrainingMatches(_, _)
TrainingMatches(db, seasons) ==
    IF seasons = <<>> THEN <<>>
    ELSE TrainingQuery(db, Head(seasons)) \o TrainingMatches(db, Tail(seasons))

\* row = {'match_id': ..., 'label': ..., **features}
DatasetRow(match, fv) ==
    Merge([match_id |-> match.id, season |-> match.season,
           utc_date |-> match.utc_date, label |-> create_labels(match)], fv)

\* the loop in which the first failing match ends the build with nothing
CollectedOrAbort(todo, got) ==
    IF \E i \in 1..Len(todo) : IsRaised(got[todo[i].id].value) THEN <<>>
    ELSE [i \in 1..Len(todo) |-> DatasetRow(todo[i], got[todo[i].id].value)]

\* the loop over the matches: try ... except Exception: continue
Collected(todo, got) ==
    LET kept == SelectSeq(todo, LAMBDA m : /\ ~IsRaised(got[m.id].value)
                                           /\ create_labels(m) # None)
    IN  [i \in 1..Len(kept) |-> DatasetRow(kept[i], got[kept[i].id].value)]

RowsOfSeason(rows, season, same) ==
    SelectSeq(rows, LAMBDA r : (r.season = season) = same)

\* df.sort_values('utc_date'), rows of one kickoff by match id
SortRows(rows) ==
    LET n == Len(rows)
        Rank(i) == Cardinality({j \in 1..n :
                       \/ rows[j].utc_date < rows[i].utc_date
                       \/ /\ rows[j].utc_date = rows[i].utc_date
                          /\ rows[j].match_id < rows[i].match_id})
    IN  [k \in 1..n |-> rows[CHOOSE i \in 1..n : Rank(i) = k - 1]]

DatasetResponse(seasons, valid_season, raised, rows, train_df, valid_df, failed) ==
    [op |-> "dataset", seasons |-> seasons, valid_season |-> valid_season,
     raised |-> raised, rows |-> rows, train_df |-> train_df, valid_df |-> valid_df,
     failed |-> failed]

prepare_training_data(seasons, valid_season) ==
    LET todo == TrainingMatches(matches, seasons)
        ids == {todo[i].id : i \in 1..Len(todo)}
        Outcome == [id \in ids |->
                       get_features_for_match(features, matches, snapshots, id)]
    IN  \E got \in [ids -> UNION {Outcome[id] : id \in ids}] :
          /\ \A id \in ids : got[id] \in Outcome[id]
          /\ LET rows == Collected(todo, got)
                 built == {id \in ids : ~IsRaised(got[id].value)}
                 sorted == SortRows(rows)
                 split_idx == (Len(rows) * 4) \div 5
                 R(raised, train_df, valid_df) ==
                     DatasetResponse(seasons, valid_season, raised, rows, train_df,
                                     valid_df, ids \ built)
             IN  /\ features' = [id \in DOMAIN features \cup built |->
                                    IF id \in DOMAIN features THEN features[id]
                                    ELSE got[id].value]
                 /\ last' = IF rows = <<>> THEN R(TRUE, <<>>, <<>>)
                            ELSE IF valid_season # None
                            THEN R(FALSE, RowsOfSeason(rows, valid_season, FALSE),
                                   RowsOfSeason(rows, valid_season, TRUE))
                            ELSE R(FALSE, SubSeq(sorted, 1, split_idx),
                                   SubSeq(sorted, split_idx + 1, Len(sorted)))
          /\ UNCHANGED <<calls, storeVars, predictions, h2hCache, fileVars, globalVars,
                         trainVars>>

\* season 2 holds a finished match of team 3, whose previous season has no
\* game played
DatasetMatches == SeedMatches \cup {MatchRow(3, 2, 1, 1, 3, 1, Finished(0, 1))}

\* the season lists asked for: each season once
SeasonLists ==
    {s \in UNION {[1..n -> Seasons] : n \in 1..MaxSeason} :
        \A i \in 1..Len(s), j \in 1..Len(s) : i # j => s[i] # s[j]}

\* a result of a season after the first arrives
IngestResult(season, utc_date, home, away, o) ==
    /\ Cardinality(matches) < Cardinality(DatasetMatches) + MaxDatasetInserts
    /\ InsertMatch(season, utc_date, 1, home, away, o)

InitDataset ==
    /\ matches = DatasetMatches
    /\ snapshots = ServingSnapshots
    /\ ServingIdle

NextDataset ==
    \/ \E season \in Seasons \ {1}, utc_date \in Dates, home \in Teams,
          away \in Teams, o \in Outcomes :
           IngestResult(season, utc_date, home, away, o)
    \/ \E seasons \in SeasonLists, valid_season \in Seasons \cup {None} :
           prepare_training_data(seasons, valid_season)

SpecDataset == InitDataset /\ [][NextDataset]_vars

----------------------------------------------------------------------------
(* The feature commands next to the cached reader: build.py build_features,
   build_single, get_features_for_match *)

MaxBuildInserts == 1

MaxDaysBack == 1

BuildUnchanged ==
    UNCHANGED <<calls, storeVars, predictions, h2hCache, fileVars, globalVars,
                trainVars, last>>

IngestFixture(season, utc_date, home, away, o) ==
    /\ Cardinality(matches) < Cardinality(SeedMatches) + MaxBuildInserts
    /\ InsertMatch(season, utc_date, 1, home, away, o)

\* for i, match in enumerate(matches): build, save, or report and continue
RECURSIVE BuildEach(_, _, _, _)
BuildEach(table, mdb, sdb, ids) ==
    IF ids = {} THEN {table}
    ELSE LET id == CHOOSE i \in ids : TRUE
         IN  UNION {BuildEach(kept, mdb, sdb, rest) :
                    kept \in {IF IsRaised(fv) THEN table
                               ELSE save_features_to_db(table, id, fv) :
                               fv \in UNION {build_match_features(mdb, sdb, match) :
                                             match \in MatchById(mdb, id)}},
                    rest \in {ids \ {id}}}

build_features(season) ==
    /\ features' \in BuildEach(features, matches, snapshots,
                               {m.id : m \in {n \in matches : n.season = season}})
    /\ BuildUnchanged

build_single(match_id) ==
    /\ IF MatchById(matches, match_id) = {}
       THEN UNCHANGED features
       ELSE \E fv \in build_match_features(matches, snapshots,
                          CHOOSE m \in MatchById(matches, match_id) : TRUE) :
                IF IsRaised(fv) THEN UNCHANGED features
                ELSE features' = save_features_to_db(features, match_id, fv)
    /\ BuildUnchanged

FetchFeatures(match_id) ==
    /\ \E g \in get_features_for_match(features, matches, snapshots, match_id) :
           features' = g.table
    /\ BuildUnchanged

BuildIds == 1..(Cardinality(SeedMatches) + MaxBuildInserts + 1)

NextBuild ==
    \/ \E season \in Seasons, utc_date \in Dates, home \in Teams, away \in Teams,
          o \in Outcomes : IngestFixture(season, utc_date, home, away, o)
    \/ \E season \in Seasons : build_features(season)
    \/ \E match_id \in BuildIds : build_single(match_id)
    \/ \E match_id \in BuildIds : FetchFeatures(match_id)

SpecBuild == InitHistory /\ [][NextBuild]_vars

----------------------------------------------------------------------------
(* Retraining data: backend/ml/evaluation/learn_from_mistakes.py *)

\* datetime.now() of a retraining run: no stored match kicks off later
Today == MaxDate

\* prepare_training_data(original_seasons, 2024): the held-out season is fixed
RetrainValidSeason == MaxSeason

\* query(Match, Prediction).join(Prediction): finished, scored matches with a
\* stored prediction, since the cutoff when days_back is given
FinishedWithPrediction(mdb, preds, days_back) ==
    OrderByDate({m \in mdb : /\ m.id \in DOMAIN preds
                             /\ m.status = "FINISHED"
                             /\ HasScores(m)
                             /\ days_back # 0 => m.utc_date >= Today - days_back})

\* one row of new_matches_df
FinishedMatchRow(m, prediction) ==
    [match_id |-> m.id, season |-> m.season, matchday |-> m.matchday,
     utc_date |-> m.utc_date, home_team_id |-> m.home_team_id,
     away_team_id |-> m.away_team_id, home_score |-> m.home_score,
     away_score |-> m.away_score,
     actual_outcome |-> IF m.home_score > m.away_score THEN 2
                        ELSE IF m.home_score < m.away_score THEN 0 ELSE 1,
     probs |-> prediction.probs, model_version |-> prediction.model_version]

get_finished_matches_with_predictions(mdb, preds, days_back) ==
    LET results == FinishedWithPrediction(mdb, preds, days_back)
    IN  [i \in 1..Len(results) |-> FinishedMatchRow(results[i], preds[results[i].id])]

\* the stored feature rows of the ids, each with features['match_id'] = match_id
get_features_for_finished_matches(table, match_ids) ==
    LET stored == SelectSeq(match_ids, LAMBDA id : id \in DOMAIN table)
    IN  [i \in 1..Len(stored) |-> Merge(table[stored[i]], [match_id |-> stored[i]])]

\* left.merge(right, on='match_id') of one pair of rows: a column of both
\* frames is carried twice, as name_x and name_y
MergeRows(left, right) ==
    LET both == (DOMAIN left \cap DOMAIN right) \ {"match_id"}
        single == (DOMAIN left \cup DOMAIN right) \ both
    IN  [k \in single |-> IF k \in DOMAIN left THEN left[k] ELSE right[k]]
        @@ [n \in {k \o "_x" : k \in both} |->
                left[CHOOSE k \in both : k \o "_x" = n]]
        @@ [n \in {k \o "_y" : k \in both} |->
                right[CHOOSE k \in both : k \o "_y" = n]]

\* new_matches_df.merge(new_features_df, on='match_id', how='inner')
InnerMerge(left_df, right_df) ==
    LET kept == SelectSeq(left_df, LAMBDA l :
                    \E j \in 1..Len(right_df) : right_df[j].match_id = l.match_id)
        Right(l) == right_df[CHOOSE j \in 1..Len(right_df) :
                                 right_df[j].match_id = l.match_id]
    IN  [i \in 1..Len(kept) |-> MergeRows(kept[i], Right(kept[i]))]

\* the answer of prepare_retraining_data.  pd.concat keeps every row of both
\* frames; a column a row does not have (label in the new rows) reads NaN
RetrainDataResponse(seasons, days_back, raised, train_df, valid_df, new_data) ==
    [op |-> "retrain_data", original_seasons |-> seasons,
     days_back |-> days_back, raised |-> raised, train_df |-> train_df,
     valid_df |-> valid_df, new_data |-> new_data]

\* prepare_training_data(original_seasons, 2024) runs first, on the same
\* session; its ValueError on an empty frame is not caught.  Each frame is a
\* value computed once and named as in the code.
prepare_retraining_data(original_seasons, new_matches_days_back) ==
    LET todo == TrainingMatches(matches, original_seasons)
        ids == {todo[i].id : i \in 1..Len(todo)}
        R(raised, train_df, valid_df, folded) ==
            RetrainDataResponse(original_seasons, new_matches_days_back,
                                raised, train_df, valid_df, folded)
    IN  \E Outcome \in {[id \in ids |->
                            get_features_for_match(features, matches, snapshots, id)]} :
        \E got \in [ids -> UNION {Outcome[id] : id \in ids}] :
          /\ \A id \in ids : got[id] \in Outcome[id]
          /\ \E rows \in {Collected(todo, got)} :
             \E table \in {[id \in DOMAIN features \cup
                                    {d \in ids : ~IsRaised(got[d].value)} |->
                               IF id \in DOMAIN features THEN features[id]
                               ELSE got[id].value]} :
             \E original_train_df \in {RowsOfSeason(rows, RetrainValidSeason, FALSE)} :
             \E original_valid_df \in {RowsOfSeason(rows, RetrainValidSeason, TRUE)} :
             \E new_matches_df \in
                    {get_finished_matches_with_predictions(matches, predictions,
                                                           new_matches_days_back)} :
             \E new_features_df \in
                    {get_features_for_finished_matches(table,
                         [i \in 1..Len(new_matches_df) |->
                             new_matches_df[i].match_id])} :
             \E new_data \in {InnerMerge(new_matches_df, new_features_df)} :
                 /\ features' = table
                 /\ last' = IF rows = <<>> THEN R(TRUE, <<>>, <<>>, <<>>)
                            ELSE IF new_matches_df = <<>> \/ new_features_df = <<>>
                            THEN R(FALSE, original_train_df, original_valid_df, <<>>)
                            ELSE R(FALSE, original_train_df \o new_data,
                                   original_valid_df, new_data)
          /\ UNCHANGED <<calls, storeVars, predictions, h2hCache, fileVars, globalVars,
                         trainVars>>

\* the result of a scheduled match is ingested
ResultArrives(match_id, o) ==
    /\ o.status = "FINISHED"
    /\ \E m \in MatchById(matches, match_id) :
          /\ m.status = "SCHEDULED"
          /\ matches' = (matches \ {m}) \cup
                 {[m EXCEPT !.status = o.status, !.home_score = o.home_score,
                            !.away_score = o.away_score]}
    /\ UNCHANGED <<calls, snapshots, tableVars, fileVars, globalVars, trainVars, last>>

\* seasons 1 and 2 each hold a scheduled match of teams 1 and 2
RetrainMatches ==
    SeedMatches \cup {MatchRow(3, 1, 3, 2, 1, 2, Scheduled),
                      MatchRow(4, 2, 3, 1, 2, 1, Scheduled)}

\* the matches that were predicted and are then played
Fixtures == {m.id : m \in RetrainMatches \ SeedMatches}

\* the feature rows the predict requests for the fixtures have stored
PredictedFeatures ==
    [id \in Fixtures |->
        CHOOSE fv \in build_match_features(RetrainMatches, SeedSnapshots,
                          CHOOSE m \in RetrainMatches : m.id = id) : TRUE]

\* the service has loaded the artifact of one completed fit and answered a
\* predict request for each fixture
InitRetrain ==
    /\ matches = RetrainMatches
    /\ snapshots = SeedSnapshots
    /\ features = PredictedFeatures
    /\ now = [day |-> 1, minute |-> 1]
    /\ modelFile = [run |-> 1]
    /\ scalerFile = [run |-> 1]
    /\ metaFile = FitMetadata(1, "xgb", FitVersion("xgb", now))
    /\ model = modelFile
    /\ scaler = scalerFile
    /\ metadata = metaFile
    /\ predictions =
           [id \in DOMAIN features |->
               PredictionRow(id, predict_proba(model, scaler,
                                     Encode(features[id], get_feature_columns)),
                             metadata.model_version)]
    /\ h2hCache = NoRows
    /\ job = NoJob
    /\ saved = <<FitVersion("xgb", now)>>
    /\ runs = 1
    /\ last = NoRequest
    /\ calls = [c \in Callers |-> IdleCall]

NextRetrain ==
    \/ \E match_id \in Fixtures, o \in Outcomes : ResultArrives(match_id, o)
    \/ \E original_seasons \in SeasonLists, days_back \in 0..MaxDaysBack :
           prepare_retraining_data(original_seasons, days_back)

SpecRetrain == InitRetrain /\ [][NextRetrain]_vars

----------------------------------------------------------------------------
(* Claims *)

\* C1 (no leakage under match insertion): for every stored match M, inserting a
\* match dated on or after M.date, whatever its teams, status or scores, leaves
\* the feature maps build_match_features can compute for M exactly as they were.
C1_NoLeakageUnderInsertion ==
    [][\A M \in matches :
         (\E n \in matches' \ matches : n.utc_date >= M.utc_date)
             => build_match_features(matches', snapshots', M)
                    = build_match_features(matches, snapshots, M)]_vars

\* C1 witness: a finished, scored meeting of M's own pair, in M's season and on
\* M's own date, was inserted after M, and M has rolling form and head-to-head
\* history of its own.
C1_Witness ==
    \E M \in matches, n \in matches :
      \E v \in build_match_features(matches, snapshots, M) :
        /\ v.data_quality.home_matches >= 2
        /\ v.h2h_total_matches = F(2)
        /\ n.id > M.id
        /\ n.utc_date = M.utc_date
        /\ n.season = M.season
        /\ IsPair(n, M.home_team_id, M.away_team_id)
        /\ n.status = "FINISHED"
        /\ HasScores(n)

\* C2 (standings resolve matchday-1, never the requested matchday): the result
\* for matchday m does not depend on the snapshots of matchday m, and matchday 1
\* always gives the cold-start defaults.
C2_NeverReadsRequestedMatchday ==
    \A season \in Seasons, team_id \in Teams, m \in Matchdays :
        /\ get_standings_at_matchday(snapshots, season, m, team_id)
               = get_standings_at_matchday({s \in snapshots : s.matchday # m},
                                           season, m, team_id)
        /\ m = 1 => get_standings_at_matchday(snapshots, season, m, team_id)
                        = ColdStartStandings

\* C3 (previous-season features use earlier seasons only): every snapshot row
\* the previous-season features of a match of season cs are computed from
\* belongs to a season before cs.
C3_PrevSeasonUsesEarlierSeasonsOnly ==
    \A home \in Teams, away \in Teams, cs \in Seasons :
        home # away =>
            \A hr \in PrevStandingsRows(snapshots, home, cs) \cup
                      PrevStandingsRows(snapshots, away, cs) : hr.season < cs

MatchStatus(match_id) ==
    IF MatchById(matches, match_id) = {} THEN "absent"
    ELSE (CHOOSE m \in MatchById(matches, match_id) : TRUE).status

Answered == last.op \in {"predict", "app_predict"}

\* C4 (promotion is atomic): at every point during and after a run, aborted
\* or not, the model file, the scaler file and the metadata file the serving
\* path sees were all written by one single run (or none exists yet).
C4_VisibleBundleFromOneRun ==
    /\ modelFile.run = scalerFile.run
    /\ scalerFile.run = metaFile.run

\* C5 (version ids are unique): no two saved artifacts carry the same version
\* id, whatever the algorithm, the day and the minute of the runs.
C5_SavedVersionsDistinct ==
    \A i \in 1..Len(saved), j \in 1..Len(saved) : i # j => saved[i] # saved[j]

\* C6 (schema mismatch is an error): a predict request whose feature vector
\* lacks a schema column is answered with the schema-mismatch error; no column
\* is filled in with 0.0 and the classifier is not called.
C6_MissingColumnIsSchemaMismatch ==
    Answered /\ (last.missing # {} \/ last.coerced # {})
        => /\ last.detail = "schema mismatch"
           /\ ~last.model_called

\* C7 (encoding follows the loaded artifact's schema): whenever predict has
\* encoded a vector, the ordered column list it used is the feature_names list
\* in the metadata of the artifact the process loaded.
C7_ColumnsFromLoadedMetadata ==
    last.op = "predict" /\ last.cols # <<>>
        => /\ metadata # Absent
           /\ "feature_names" \in DOMAIN metadata
           /\ last.cols = metadata.feature_names

\* C8 (terminal-state guard): a predict request for a FINISHED match is answered
\* with the not-predictable error whether or not an artifact is loaded, calls
\* neither scaler nor classifier, and writes no prediction or feature row.
C8_FinishedMatchNotPredictable ==
    Answered /\ MatchStatus(last.match_id) = "FINISHED"
        => /\ last.status = 400
           /\ last.detail = "finished"
           /\ ~last.scaler_called /\ ~last.model_called
           /\ ~last.wrote_prediction /\ ~last.wrote_features

\* C9 (unknown match): a predict request for an id that is not in the match
\* store is answered with the not-found error in every serving state and
\* writes no prediction or feature row.
C9_UnknownMatchNotFound ==
    Answered /\ MatchStatus(last.match_id) = "absent"
        => /\ last.status = 404
           /\ last.detail = "not found"
           /\ ~last.wrote_prediction /\ ~last.wrote_features

\* C10 (no artifact, no prediction): when the process holds no complete
\* artifact after trying to load one, a predict request for an existing match
\* that is not finished is answered with the service-not-ready error, returns
\* no probabilities and writes no prediction row.
C10_NoArtifactServiceNotReady ==
    /\ last.op = "predict"
    /\ ~last.ready
    /\ MatchStatus(last.match_id) \notin {"absent", "FINISHED"}
    => /\ last.detail = "service not ready"
       /\ last.probs = NoProbs
       /\ ~last.wrote_prediction

\* C11 (insufficient history): whenever get_features_for_match raised for an
\* existing, non-finished match, predict answers 422 insufficient history,
\* does not call the model and writes no prediction row.
C11_FeatureFailureIs422 ==
    Answered /\ last.features_raised
        => /\ last.status = 422
           /\ last.detail = "insufficient history"
           /\ ~last.model_called
           /\ ~last.wrote_prediction

Batched == last.op \in {"batch", "app_batch"}

\* C12 (a batch never aborts): every batch request made while an artifact is
\* loadable (or, on the test surface, at all) is answered successfully, with no
\* prediction for an id that is unknown or finished and at most one per
\* requested item.
C12_BatchNeverAborts ==
    Batched /\ (last.op = "batch" => last.ready)
        => /\ last.status = 200
           /\ \A k \in 1..Len(last.predicted) : Eligible(last.predicted[k])
           /\ Len(last.predicted) <= Len(last.batch)

Succeeded(r) == r.op = "predict" /\ r.status = 200

\* C13 (one current prediction per match): a Prediction row appears or changes
\* only in a successful predict call for its match, rows are never removed,
\* and after a successful call the row of that match holds the probabilities
\* and the model version the call returned.
C13_PredictionUpsert ==
    [][/\ DOMAIN predictions \subseteq DOMAIN predictions'
       /\ \A id \in DOMAIN predictions' :
            (id \notin DOMAIN predictions \/ predictions'[id] # predictions[id])
                => Succeeded(last') /\ last'.match_id = id
       /\ Succeeded(last')
            => /\ last'.match_id \in DOMAIN predictions'
               /\ predictions'[last'.match_id].probs = last'.probs
               /\ predictions'[last'.match_id].model_version = last'.model_version]_vars

\* a successful predict replaced a row that held other probabilities
C13_Witness ==
    /\ Succeeded(last)
    /\ last.existing # NoPrediction
    /\ last.existing.probs # last.probs
    /\ predictions[last.match_id].probs = last.probs

CallEnded(c) == calls[c].pc \in {"returned", "raised"}

\* c missed the cache, built a map and went on to save it
Saved(c) == CallEnded(c) /\ calls[c].built /\ calls[c].fv # NoMap

\* C14 (concurrent cache writes are idempotent): when two calls for one match
\* both missed the cache and built its map, both return that same map without
\* error and the table holds the row of that match.
C14_ConcurrentBuildersBothReturn ==
    \A c \in Callers, d \in Callers :
        c # d /\ Saved(c) /\ Saved(d) /\ calls[c].match_id = calls[d].match_id
            => /\ calls[c].pc = "returned"
               /\ calls[d].pc = "returned"
               /\ calls[c].result = calls[d].result
               /\ calls[c].match_id \in DOMAIN features

\* C15 (cache idempotence): a call that starts after another call for the same
\* match has returned its map, the stores unchanged, does not run the builder
\* and returns the identical map.
C15_SecondCallHitsCache ==
    [][\A c \in Callers, d \in Callers :
          /\ c # d
          /\ calls[c].pc = "idle" /\ calls'[c].pc # "idle"
          /\ calls[d].pc = "returned" /\ calls[d].match_id = calls'[c].match_id
          => /\ calls'[c].pc = "returned"
             /\ ~calls'[c].built
             /\ calls'[c].result = calls[d].result]_vars

\* a first call built and returned the map, a second call returned it unbuilt
C15_Witness ==
    \E c \in Callers, d \in Callers :
        /\ calls[d].pc = "returned" /\ calls[d].built
        /\ calls[c].pc = "returned" /\ ~calls[c].built
        /\ calls[c].match_id = calls[d].match_id
        /\ calls[c].result = calls[d].result

C17_SameDateReusedLaterRecomputed ==
    last.op = "h2h" /\ last.cache_entry # NoEntry
        => /\ last.cache_entry.match_date = last.match_date => last.reused
           /\ last.cache_entry.match_date < last.match_date => ~last.reused

RowIds(rows) == {rows[i].match_id : i \in 1..Len(rows)}

PriorMatches(team_id, season, date) ==
    {m \in matches : /\ m.season = season
                     /\ m.utc_date < date
                     /\ (m.home_team_id = team_id \/ m.away_team_id = team_id)}

\* C19 (rolling cold start): a team without any match of the season strictly
\* before the as-of date gets form_ppg 1.0, goals for and against 1.0, goal
\* difference 0.0, rest_days 7.0 and matches_available 0.
C19_ColdStartDefaults ==
    \A team_id \in Teams, season \in Seasons, date \in Dates :
        PriorMatches(team_id, season, date) = {}
            => get_team_form_features(matches, team_id, season, date, RollingWindow)
                 = [form_ppg |-> <<1, 1>>, goals_for_per_match |-> <<1, 1>>,
                    goals_against_per_match |-> <<1, 1>>,
                    goal_diff_per_match |-> <<0, 1>>, rest_days |-> <<7, 1>>,
                    matches_available |-> 0]

\* a team whose matches of the latest season, all of them ingested since, kick
\* off on the as-of date or later
C19_Witness ==
    \E team_id \in Teams, season \in {MaxSeason}, date \in Dates :
        /\ PriorMatches(team_id, season, date) = {}
        /\ \E m \in matches : /\ m.season = season /\ m.utc_date = date
                              /\ m.home_team_id = team_id
                              /\ HasScores(m)
        /\ \E m \in matches : /\ m.season = season /\ m.utc_date > date
                              /\ m.away_team_id = team_id
                              /\ HasScores(m)

\* C20 (rest days): for a team with a scored match before the as-of date,
\* rest_days is the number of days from its latest such match to the as-of
\* date.
C20_RestDaysIsGapToPreviousMatch ==
    \A team_id \in Teams, season \in Seasons, date \in Dates :
        LET scored == {m \in PriorMatches(team_id, season, date) : HasScores(m)}
        IN  scored # {}
              => \E m \in scored :
                   /\ \A n \in scored : n.utc_date <= m.utc_date
                   /\ get_team_form_features(matches, team_id, season, date,
                                             RollingWindow).rest_days
                        = <<date - m.utc_date, 1>>

\* the finished, scored meetings of a pair strictly before the as-of date
PriorMeetings(home_team_id, away_team_id, date) ==
    {m \in matches : /\ m.utc_date < date
                     /\ m.status = "FINISHED"
                     /\ HasScores(m)
                     /\ IsPair(m, home_team_id, away_team_id)}

\* C21 (H2H neutrality): a pair without a finished, scored meeting strictly
\* before the as-of date gets win rate 0.5, loss rate 0.5, draw rate 0.0 and
\* average goals 2.5; for any number of prior meetings no feature is the
\* result of a division by zero.
C21_H2HNeutralWithoutMeetings ==
    \A home \in Teams : \A away \in Teams \ {home}, date \in Dates :
        LET h2h == get_extended_h2h_features(matches, home, away, date,
                                             ExtendedH2HLimit)
        IN  /\ \A k \in DOMAIN h2h : ~isna(h2h[k])
            /\ PriorMeetings(home, away, date) = {}
                  => /\ h2h.h2h_win_rate = <<1, 2>>
                     /\ h2h.h2h_loss_rate = <<1, 2>>
                     /\ h2h.h2h_draw_rate = <<0, 1>>
                     /\ h2h.h2h_avg_goals = <<5, 2>>

\* a pair without an earlier meeting whose ingested meeting kicks off on the
\* as-of date, next to a pair that has met twice before its as-of date
C21_Witness ==
    /\ \E home \in Teams : \E away \in Teams \ {home}, date \in Dates :
          /\ PriorMeetings(home, away, date) = {}
          /\ \E m \in matches \ SeedMatches :
                 /\ IsPair(m, home, away) /\ HasScores(m)
                 /\ m.status = "FINISHED" /\ m.utc_date = date
    /\ \E home \in Teams : \E away \in Teams \ {home}, date \in Dates :
          Cardinality(PriorMeetings(home, away, date)) >= 2

\* matchdays a rank delta is requested for, and the windows it is requested with
RequestedMatchdays == 1..(MaxMatchday + 1)

RankWindows == 1..MaxMatchday

\* C22 (rank delta): get_rank_delta(team, m, W) is the position at matchday
\* m-1-W minus the position at matchday m-1, and 0.0 whenever m <= W or one of
\* the two snapshots is absent.
C22_RankDeltaIsPastMinusCurrent ==
    \A season \in Seasons, team_id \in Teams :
        \A m \in RequestedMatchdays, W \in RankWindows :
            LET current == SnapshotRows(snapshots, season, m - 1, team_id)
                past == SnapshotRows(snapshots, season, m - 1 - W, team_id)
                delta == get_rank_delta(snapshots, season, m, team_id, W)
            IN  IF m <= W \/ current = {} \/ past = {}
                THEN delta = <<0, 1>>
                ELSE \E c \in current, p \in past :
                        delta = <<p.position - c.position, 1>>

\* a team that holds different positions at the two matchdays of a request
C22_Witness ==
    \E season \in Seasons, team_id \in Teams :
        \E m \in RequestedMatchdays, W \in RankWindows :
            /\ m > W
            /\ \E c \in SnapshotRows(snapshots, season, m - 1, team_id) :
                 \E p \in SnapshotRows(snapshots, season, m - 1 - W, team_id) :
                     p.position # c.position

\* C23 (a cached feature row is immutable): once a FeatureVector row exists for
\* a match id, no step of get_features_for_match, build_single or
\* build_features replaces or modifies it.
C23_CachedRowNeverChanges ==
    [][\A id \in DOMAIN features :
          id \in DOMAIN features' /\ features'[id] = features[id]]_vars

\* the windows compute_rolling_features is checked with
MaxWindow == 2

\* the mean of rows lo..hi of a column
MeanOfRows(col, lo, hi) == Frac(SumSeq(col, lo, hi), hi - lo + 1)

\* C24 (rolling excludes the current row): with window W the rolling value of
\* row i is the mean over the W rows before it (fewer at the start) and never
\* includes row i; the first row has no rolling value and every later row has
\* one.  Rows are numbered from 1 here, so row i reads rows max(1, i-W)..i-1.
C24_RollingMeanOverPrecedingRows ==
    \A team_id \in Teams, season \in Seasons, date \in Dates, W \in 1..MaxWindow :
        LET df == get_team_match_history(matches, team_id, season, date)
            out == compute_rolling_features(df, W)
            pts == [i \in 1..Len(df) |-> df[i].points]
            gf == [i \in 1..Len(df) |-> df[i].goals_for]
            ga == [i \in 1..Len(df) |-> df[i].goals_against]
        IN  \A i \in 1..Len(df) :
               IF i = 1
               THEN /\ isna(out[i].points_rolling)
                    /\ isna(out[i].goals_for_rolling)
                    /\ isna(out[i].goals_against_rolling)
               ELSE /\ ~isna(out[i].points_rolling)
                    /\ out[i].points_rolling = MeanOfRows(pts, Max(1, i - W), i - 1)
                    /\ out[i].goals_for_rolling = MeanOfRows(gf, Max(1, i - W), i - 1)
                    /\ out[i].goals_against_rolling
                         = MeanOfRows(ga, Max(1, i - W), i - 1)

\* a history longer than the window plus one, whose latest row would change
\* the mean if it were counted and whose earliest row would too
C24_Witness ==
    \E team_id \in Teams, season \in Seasons, date \in Dates, W \in 1..MaxWindow :
        LET df == get_team_match_history(matches, team_id, season, date)
            n == Len(df)
            pts == [i \in 1..n |-> df[i].points]
        IN  /\ n > W + 1
            /\ MeanOfRows(pts, n - W, n - 1) # MeanOfRows(pts, n - W + 1, n)
            /\ MeanOfRows(pts, n - W, n - 1) # MeanOfRows(pts, 1, n - 1)

\* C25 (held-out season isolation): in a build with held-out season V that
\* returns, the validation table holds exactly one row for every finished,
\* scored match of V whose features build, the training table holds no row of
\* V, and the two tables together hold every built row exactly once.
C25_HeldOutSeasonIsolated ==
    [][(last' # last \/ features' # features) =>
         LET r == last'
             V == r.valid_season
             held == {m \in matches : /\ m.season = V
                                       /\ m.status = "FINISHED"
                                       /\ HasScores(m)}
             Values == [id \in {m.id : m \in held} |->
                           {g.value : g \in get_features_for_match(features, matches,
                                                                   snapshots, id)}]
             InValid(id) == {i \in 1..Len(r.valid_df) : r.valid_df[i].match_id = id}
             InTrain(id) == {i \in 1..Len(r.train_df) : r.train_df[i].match_id = id}
         IN  (r.op = "dataset" /\ V # None /\ ~r.raised) =>
               /\ \A m \in held :
                    (\A v \in Values[m.id] : ~IsRaised(v))
                        => Cardinality(InValid(m.id)) = 1
               /\ \A i \in 1..Len(r.train_df) : r.train_df[i].season # V
               /\ \A id \in RowIds(r.rows) :
                    Cardinality(InValid(id)) + Cardinality(InTrain(id)) = 1]_vars

\* the meetings of a pair in the store that kick off strictly before the date
MeetingsBefore(home_team_id, away_team_id, date) ==
    {m \in matches : IsPair(m, home_team_id, away_team_id) /\ m.utc_date < date}

\* the h2h features of a set of scored meetings, from the home team's side
FeaturesOfMeetings(S, home_team_id) ==
    LET found == Limit(Reverse(OrderByDate(S)), H2HLimit)
    IN  compute_h2h_features([i \in 1..Len(found) |->
                                 H2HMatchRow(found[i], home_team_id)])

\* C26 (no future meeting behind an h2h answer): whatever requests and
\* insertions came before, the features returned for a request dated D, from
\* the cache or recomputed, are the features of meetings that all kick off
\* strictly before D.
C26_H2HAnswerFromEarlierMeetings ==
    [][last' # last =>
         LET r == last'
         IN  (r.op = "h2h" /\ ~IsRaised(r.features)) =>
               \E S \in SUBSET MeetingsBefore(r.home_team_id, r.away_team_id,
                                             r.match_date) :
                   /\ \A m \in S : HasScores(m)
                   /\ r.features = FeaturesOfMeetings(S, r.home_team_id)]_vars

\* a request answered from the cache while the store holds a scored meeting,
\* ingested since, that kicks off on the requested date or later
C26_Witness ==
    /\ last.op = "h2h"
    /\ last.reused
    /\ \E m \in matches \ SeedMatches :
          /\ IsPair(m, last.home_team_id, last.away_team_id)
          /\ HasScores(m)
          /\ m.utc_date >= last.match_date

\* C27 (atomic load): whatever load_model calls ran against whatever files,
\* the serving state is all-or-nothing: the process holds a model exactly when
\* it holds a scaler, so a failed load leaves the model unset and the next
\* call retries.
C27_ModelSetIffScalerSet ==
    (model # Absent) <=> (scaler # Absent)

MatchOfRow(row) == CHOOSE m \in matches : m.id = row.match_id

\* C29 (every training row is labelled): every row of the training table
\* prepare_retraining_data returns, the finished matches folded back from the
\* stored predictions included, carries a label in {0, 1, 2} that equals
\* create_labels of the match's final score.
C29_RetrainingRowsLabelled ==
    (last.op = "retrain_data" /\ ~last.raised) =>
        \A i \in 1..Len(last.train_df) :
            LET row == last.train_df[i]
            IN  /\ "label" \in DOMAIN row
                /\ row.label \in {0, 1, 2}
                /\ row.label = create_labels(MatchOfRow(row))

\* C30 (no match twice): in the tables prepare_retraining_data returns each
\* match id occurs at most once: not twice in the training table and not in
\* both the training and the validation table.
C30_RetrainingMatchAtMostOnce ==
    (last.op = "retrain_data" /\ ~last.raised) =>
        /\ \A i \in 1..Len(last.train_df), j \in 1..Len(last.train_df) :
              i # j => last.train_df[i].match_id # last.train_df[j].match_id
        /\ \A i \in 1..Len(last.train_df), j \in 1..Len(last.valid_df) :
              last.train_df[i].match_id # last.valid_df[j].match_id

====
